---- MODULE Spec2Model ----
(***************************************************************************)
(* Component-discovery pipeline of the Sourced backend.                    *)
(*                                                                         *)
(*   services/sam3d_service.py  SAM3DService: load/unload of the mask      *)
(*                              model, the grid of prompt points, the      *)
(*                              batches, the region filter and the merge   *)
(*   routes/generate_3d.py      generate_3d: the result cache gate and the *)
(*                              three-tier cascade                         *)
(*                                                                         *)
(* Numbers.  Python computes the normalized bbox values as floats; the     *)
(* model keeps them exact, as integers over a fixed denominator:           *)
(*   x_center = cx2 / (2*ImgW)      with cx2 = xmin + xmax                 *)
(*   y_center = cy2 / (2*ImgH)      with cy2 = ymin + ymax                 *)
(*   w = dw / ImgW, h = dh / ImgH   with dw = xmax - xmin, dh = ymax - ymin*)
(*   position[0] = px / ImgW, position[1] = py / ImgH,                     *)
(*   position[2] = pz / (2*ImgW*ImgH), scale = [dw/ImgW, dh/ImgH, 2/100]   *)
(*   score, confidence: hundredths (70 is 0.70).                           *)
(***************************************************************************)
EXTENDS Integers, Sequences, FiniteSets, TLC

VARIABLES
    model,      \* sam_service.model: NoModel or the instance held
    processor,  \* sam_service.processor: NoModel or the instance held
    device,     \* sam_service.device: "None", "mps" or "cpu"
    inflight,   \* workers holding a model built by from_pretrained, not yet assigned
    hw,         \* accelerator of the host: what torch.backends.mps.is_available() selects
    weights,    \* whether the model's weights can be fetched on the host
    pool,       \* which outputs the mask model may give: "rich", "small" or "blank"
    cache,      \* cache[image_id]: the file <image_id>_complex_3d.json
    origin,     \* origin[image_id]: product_info of the request that wrote the file
    fresh,      \* fresh[image_id]: body of the latest freshly computed response
    pc,         \* per worker: the place in the code
    caller,     \* per worker: "route" (generate_3d) or "direct" (generate_3d_masks called directly)
    image,      \* per worker: the image file the run was given
    grid,       \* per worker: locals `width`, `height` and `points` of the run
    comps,      \* per worker: local `components` of generate_3d_masks_local
    bsize,      \* per worker: local `batch_size`
    bstart,     \* per worker: loop variable i of the batch loop
    bj,         \* per worker: loop variable j of the prompt loop
    ret,        \* per worker: what generate_3d_masks returned
    req,        \* per worker: the request being served
    result,     \* per worker: local `result` of generate_3d
    events,     \* per worker: what the request has done so far
    resp,       \* per worker: the response of the latest request
    GEOCODE_CACHE,  \* supply_chain.GEOCODE_CACHE: a dict from loc_lower to coordinates
    lookups     \* per pool worker: its geocode_location call and the object it is for

shared == <<model, processor, device, inflight, hw, weights, pool>>
store == <<cache, origin, fresh>>
run == <<image, grid, comps, bsize, bstart, bj, ret>>
http == <<req, result, resp>>
geo == <<GEOCODE_CACHE, lookups>>
vars == <<model, processor, device, inflight, hw, weights, pool, cache, origin, fresh,
          pc, caller, image, grid, comps, bsize, bstart, bj, ret, req, result, events, resp,
          GEOCODE_CACHE, lookups>>

----------------------------------------------------------------------------
(* Bounds of the model *)

NThreads == 2
ImgW == 20
ImgH == 20
MaxSide == 12

Threads == 1..NThreads

----------------------------------------------------------------------------
(* Program constants *)

NoModel == 0
n_points == 6
MinScore == 70
FixedDepth == 2
MIN_COMPONENTS == 5

NPrompts == n_points * n_points

----------------------------------------------------------------------------
(* SAM3DService: the mask model's outputs *)

\* What the model gives for one prompt: the best mask's score and, unless the
\* mask is empty, the first and last column and row of the mask.
Out(score, empty, xmin, xmax, ymin, ymax) ==
    [score |-> score, empty |-> empty, xmin |-> xmin, xmax |-> xmax,
     ymin |-> ymin, ymax |-> ymax]

LowScore == Out(69, FALSE, 3, 5, 3, 5)

\* Prompt points of the grid; the point of cell (i, j) has index i*n_points + j.
GridPoints(width, height) ==
    [k \in 0..(NPrompts - 1) |->
        <<((2 * (k \div n_points) + 1) * width) \div (2 * n_points),
          ((2 * (k % n_points) + 1) * height) \div (2 * n_points)>>]

\* Before line 87 the run has no grid.
NoGrid == [width |-> 0, height |-> 0, points |-> <<>>]

\* lines 87-97: the size of the image and the prompt points built from it
GridOf(width, height) ==
    [width |-> width, height |-> height, points |-> GridPoints(width, height)]

BatchSizeOf(dev) == IF dev = "mps" THEN 12 ELSE 4

----------------------------------------------------------------------------
(* Inputs: what the mask model may answer per prompt point *)

BoxA == Out(70, FALSE, 3, 5, 3, 5)
BoxB == Out(70, FALSE, 6, 8, 3, 5)
BoxC == Out(90, FALSE, 4, 7, 3, 5)
BoxD == Out(80, FALSE, 3, 5, 11, 13)
BoxE == Out(80, FALSE, 11, 13, 3, 5)
BoxF == Out(80, FALSE, 11, 13, 11, 13)
BoxG == Out(80, FALSE, 15, 17, 7, 9)
BoxFull == Out(95, FALSE, 0, ImgW - 1, 0, ImgH - 1)
BoxWide == Out(80, FALSE, 0, ImgW - 1, 15, 17)
BoxTiny == Out(90, FALSE, 5, 5, 3, 5)
BoxEdge == Out(80, FALSE, 15, 16, 1, 2)
BoxNarrow == Out(80, FALSE, 1, 2, 15, 17)
NoMask == Out(90, TRUE, 0, 0, 0, 0)

Scored(o, s) == [o EXCEPT !.score = s]

\* Every kind of output, spread over the first prompts of the grid.
RichPool ==
    [k \in 0..(NPrompts - 1) |->
        {LowScore} \cup
        CASE k = 0 -> {BoxA, Scored(BoxA, 90)}
          [] k = 1 -> {BoxB}
          [] k = 2 -> {Scored(BoxC, 70), BoxC}
          [] k = 3 -> {BoxD, NoMask, BoxFull}
          [] k = 4 -> {BoxE, BoxTiny}
          [] k = 5 -> {BoxF, BoxEdge}
          [] k = 6 -> {BoxG, Scored(BoxA, 90)}
          [] k = 7 -> {BoxWide, BoxC}
          [] k = 8 -> {BoxNarrow}
          [] k = 13 -> {Scored(BoxB, 90)}
          [] OTHER -> {}]

\* Four regions always found, a fifth found or not.
SmallPool ==
    [k \in 0..(NPrompts - 1) |->
        CASE k = 0 -> {BoxA}
          [] k = 1 -> {BoxD}
          [] k = 2 -> {BoxE}
          [] k = 3 -> {BoxF}
          [] k = 4 -> {LowScore, BoxG}
          [] OTHER -> {LowScore}]

\* A uniform image: no prompt gives a mask above the quality floor.
BlankPool == [k \in 0..(NPrompts - 1) |-> {LowScore}]

\* An image on which the mask model gives one output per prompt: four regions,
\* found from prompts of three different batches.
TwinPool ==
    [k \in 0..(NPrompts - 1) |->
        CASE k = 0 -> {BoxA}
          [] k = 5 -> {BoxD}
          [] k = 6 -> {BoxE}
          [] k = 13 -> {BoxF}
          [] OTHER -> {LowScore}]

\* The outputs the mask model may give for prompt point k.
Outputs(k) ==
    CASE pool = "rich" -> RichPool[k]
      [] pool = "blank" -> BlankPool[k]
      [] pool = "twin" -> TwinPool[k]
      [] OTHER -> SmallPool[k]

----------------------------------------------------------------------------
(* SAM3DService.generate_3d_masks_local: region filter and merge *)

XCenter2(o) == o.xmin + o.xmax
YCenter2(o) == o.ymin + o.ymax
BoxW(o) == o.xmax - o.xmin
BoxH(o) == o.ymax - o.ymin

\* score < 0.70
BelowQuality(o) == o.score < MinScore

\* not np.any(rows) or not np.any(cols)
EmptyMask(o) == o.empty

\* A test that takes a region for the whole image when one side is long.
FullImageEither(o) == 10 * BoxW(o) > 9 * ImgW \/ 10 * BoxH(o) > 9 * ImgH

\* w > 0.9 and h > 0.9
FullImage(o) == 10 * BoxW(o) > 9 * ImgW /\ 10 * BoxH(o) > 9 * ImgH

\* w < 0.05 or h < 0.05
TinyNoise(o) == 20 * BoxW(o) < ImgW \/ 20 * BoxH(o) < ImgH

Rejected(o) == BelowQuality(o) \/ EmptyMask(o) \/ FullImage(o) \/ TinyNoise(o)

\* A y that grows downwards as the image's does.
PosYUnflipped(cy2) == cy2 - ImgH

\* position[0] = (x_center - 0.5) * 2 and position[1] = (0.5 - y_center) * 2
PosX(cx2) == cx2 - ImgW
PosY(cy2) == ImgH - cy2

\* ex_x = (ex_pos[0] / 2) + 0.5 and ex_y = 0.5 - (ex_pos[1] / 2)
ExX2(px) == px + ImgW
ExY2(py) == ImgH - py

\* dist < 0.1 between the centers (cx2, cy2) and (ex2, ey2)
WithinRadius(cx2, cy2, ex2, ey2) ==
    25 * (((cx2 - ex2) * ImgH) * ((cx2 - ex2) * ImgH)
          + ((cy2 - ey2) * ImgW) * ((cy2 - ey2) * ImgW))
        < (ImgW * ImgH) * (ImgW * ImgH)

IsNear(existing, o) ==
    WithinRadius(XCenter2(o), YCenter2(o),
                 ExX2(existing.position[1]), ExY2(existing.position[2]))

\* The component the loop `for existing in components` stops at: the first
\* one within the radius (0 when there is none).
DuplicateOf(components, o) ==
    IF \E i \in 1..Len(components) : IsNear(components[i], o)
    THEN CHOOSE i \in 1..Len(components) :
            /\ IsNear(components[i], o)
            /\ \A k \in 1..(i - 1) : ~IsNear(components[k], o)
    ELSE 0

\* An overwrite that also renames the component.
OverwriteRenamed(existing, o) ==
    [existing EXCEPT
        !.id = "sam_merged",
        !.position = <<PosX(XCenter2(o)), PosY(YCenter2(o)), existing.position[3]>>,
        !.scale = <<BoxW(o), BoxH(o), FixedDepth>>,
        !.confidence = o.score]

\* An overwrite that also recomputes the depth from the new bbox.
OverwriteDepth(existing, o) ==
    [existing EXCEPT
        !.position = <<PosX(XCenter2(o)), PosY(YCenter2(o)), BoxW(o) * BoxH(o)>>,
        !.scale = <<BoxW(o), BoxH(o), FixedDepth>>,
        !.confidence = o.score]

Overwrite(existing, o) ==
    [existing EXCEPT
        !.position = <<PosX(XCenter2(o)), PosY(YCenter2(o)), existing.position[3]>>,
        !.scale = <<BoxW(o), BoxH(o), FixedDepth>>,
        !.confidence = o.score]

NewComponent(components, o) ==
    [id |-> "sam_" \o ToString(Len(components)),
     name |-> "Component " \o ToString(Len(components) + 1),
     position |-> <<PosX(XCenter2(o)), PosY(YCenter2(o)), BoxW(o) * BoxH(o)>>,
     scale |-> <<BoxW(o), BoxH(o), FixedDepth>>,
     confidence |-> o.score,
     source |-> "local_sam",
     geometry |-> "None",
     color |-> "None",
     rotation |-> "None"]

\* A merge that overwrites with every duplicate, better or not.
MergeAlways(components, o) ==
    LET d == DuplicateOf(components, o) IN
    IF d # 0
    THEN [components EXCEPT ![d] = Overwrite(components[d], o)]
    ELSE Append(components, NewComponent(components, o))

\* A merge that lets a candidate of equal confidence overwrite.
MergeOnTie(components, o) ==
    LET d == DuplicateOf(components, o) IN
    IF d # 0
    THEN IF o.score >= components[d].confidence
         THEN [components EXCEPT ![d] = Overwrite(components[d], o)]
         ELSE components
    ELSE Append(components, NewComponent(components, o))

\* One pass of the loop body over the prompt's output o.
Merge(components, o) ==
    LET d == DuplicateOf(components, o) IN
    IF d # 0
    THEN IF o.score > components[d].confidence
         THEN [components EXCEPT ![d] = Overwrite(components[d], o)]
         ELSE components
    ELSE Append(components, NewComponent(components, o))

ProcessPrompt(components, o) ==
    IF Rejected(o) THEN components ELSE Merge(components, o)

----------------------------------------------------------------------------
(* SAM3DService.unload_local_model *)

\* An unload without the test of line 48.
UnloadUnguarded(m, p) == <<NoModel, NoModel>>

\* An unload that frees the model and keeps the preprocessor.
UnloadKeepsProcessor(m, p) == IF m # NoModel THEN <<NoModel, p>> ELSE <<m, p>>

\* <<model, processor>> after the call
UnloadLocalModel(m, p) == IF m # NoModel THEN <<NoModel, NoModel>> ELSE <<m, p>>

----------------------------------------------------------------------------
(* SAM3DService.generate_3d_masks_local, step by step.  A worker's steps   *)
(* interleave with those of the other workers on the one sam_service.      *)

Return(t, components) ==
    /\ ret' = [ret EXCEPT ![t] = components]
    /\ pc' = [pc EXCEPT ![t] = IF caller[t] = "route" THEN "tier1" ELSE "idle"]
    /\ comps' = [comps EXCEPT ![t] = <<>>]
    /\ grid' = [grid EXCEPT ![t] = NoGrid]
    /\ bstart' = [bstart EXCEPT ![t] = 0]
    /\ bj' = [bj EXCEPT ![t] = 0]

\* What a request has done is recorded for requests only.
Note(t, e) ==
    events' = [events EXCEPT ![t] = IF caller[t] = "route" THEN @ \cup {e} ELSE @]

\* A test that asks for a load whatever is resident.
NeedsLoadAlways(m) == TRUE

\* line 77: not self.model
NeedsLoad(m) == m = NoModel

\* line 77: if not self.model
Acquire(t) ==
    /\ pc[t] = "acquire"
    /\ pc' = [pc EXCEPT ![t] = IF NeedsLoad(model) THEN "load_model" ELSE "open"]
    /\ Note(t, "discovery")
    /\ UNCHANGED <<shared, geo, store, caller, run, http>>

\* load_local_model, lines 21-37: the imports, the device, the model weights.
\* A failure is caught inside load_local_model (lines 42-44).
LoadOutcomes ==
    IF weights THEN {"ok", "import_fails", "weights_fail"}
    ELSE {"import_fails", "weights_fail"}

LoadModelWith(t, outcomes) ==
    /\ pc[t] = "load_model"
    /\ \E outcome \in outcomes :
        /\ device' = IF outcome # "import_fails" /\ device = "None" THEN hw ELSE device
        /\ inflight' = IF outcome = "ok" THEN inflight \cup {t} ELSE inflight
        /\ pc' = [pc EXCEPT ![t] = IF outcome = "ok" THEN "assign_model" ELSE "loaded"]
        /\ Note(t, IF outcome = "ok" THEN "load" ELSE "load_failed")
    /\ UNCHANGED <<model, processor, hw, weights, pool, geo, store, caller, run, http>>

LoadModel(t) == LoadModelWith(t, LoadOutcomes)

\* lines 35/37: self.model = <the model built>
AssignModel(t) ==
    /\ pc[t] = "assign_model"
    /\ model' = t
    /\ inflight' = inflight \ {t}
    /\ pc' = [pc EXCEPT ![t] = "load_processor"]
    /\ UNCHANGED <<processor, device, hw, weights, pool, geo, store, caller, run, http, events>>

\* line 39: self.processor = SamProcessor.from_pretrained(...), or lines 42-44
LoadProcessorWith(t, oks) ==
    /\ pc[t] = "load_processor"
    /\ \E ok \in oks :
        /\ processor' = IF ok THEN t ELSE processor
        /\ Note(t, IF ok THEN "load" ELSE "load_failed")
    /\ pc' = [pc EXCEPT ![t] = "loaded"]
    /\ UNCHANGED <<model, device, inflight, hw, weights, pool, geo, store, caller, run, http>>

LoadProcessor(t) == LoadProcessorWith(t, BOOLEAN)

\* lines 79-80: if not self.model: return []
CheckLoaded(t) ==
    /\ pc[t] = "loaded"
    /\ IF model = NoModel
       THEN Return(t, <<>>)
       ELSE /\ pc' = [pc EXCEPT ![t] = "open"]
            /\ UNCHANGED <<grid, comps, bstart, bj, ret>>
    /\ UNCHANGED <<shared, geo, store, caller, image, bsize, http, events>>

\* lines 82-102: open the image, build the grid, pick the batch size; an
\* unreadable image raises into lines 211-214 (unload, return []).
OpenImageOf(t, widths, heights) ==
    /\ pc[t] = "open"
    /\ IF image[t] = "malformed"
       THEN /\ model' = UnloadLocalModel(model, processor)[1]
            /\ processor' = UnloadLocalModel(model, processor)[2]
            /\ Return(t, <<>>)
            /\ Note(t, "run_failed")
            /\ UNCHANGED bsize
       ELSE /\ \E width \in widths, height \in heights :
                  grid' = [grid EXCEPT ![t] = GridOf(width, height)]
            /\ comps' = [comps EXCEPT ![t] = <<>>]
            /\ bsize' = [bsize EXCEPT ![t] = BatchSizeOf(device)]
            /\ bstart' = [bstart EXCEPT ![t] = 0]
            /\ pc' = [pc EXCEPT ![t] = "batch"]
            /\ UNCHANGED <<model, processor, bj, ret, events>>
    /\ UNCHANGED <<device, inflight, hw, weights, pool, geo, store, caller, image, http>>

OpenImage(t) == OpenImageOf(t, {ImgW}, {ImgH})

BatchLen(t) == IF bstart[t] + bsize[t] <= NPrompts THEN bsize[t] ELSE NPrompts - bstart[t]

\* A loop that an exception leaves: no batch follows the failed one.
NextBatchEndsRun(t) ==
    /\ bstart' = [bstart EXCEPT ![t] = NPrompts]
    /\ bj' = [bj EXCEPT ![t] = 0]
    /\ pc' = [pc EXCEPT ![t] = "batch"]

NextBatch(t) ==
    /\ bstart' = [bstart EXCEPT ![t] = @ + bsize[t]]
    /\ bj' = [bj EXCEPT ![t] = 0]
    /\ pc' = [pc EXCEPT ![t] = "batch"]

\* lines 104-129: one batch through the processor and the model.  With no
\* processor or no model the call raises; any exception skips the batch
\* (lines 200-202).  raisings: whether the call may raise of itself.
BatchInferWith(t, raisings) ==
    /\ pc[t] = "batch"
    /\ bstart[t] < NPrompts
    /\ \E raises \in raisings :
        IF raises \/ processor = NoModel \/ model = NoModel
        THEN /\ NextBatch(t)
             /\ Note(t, "batch_failed")
        ELSE /\ pc' = [pc EXCEPT ![t] = "prompt"]
             /\ bj' = [bj EXCEPT ![t] = 0]
             /\ UNCHANGED <<bstart, events>>
    /\ UNCHANGED <<shared, geo, store, caller, image, grid, comps, bsize, ret, http>>

BatchInfer(t) == BatchInferWith(t, BOOLEAN)

\* lines 131-198: one prompt of the batch; after the last one the batch is
\* cleaned up.  An exception skips the rest of the batch (lines 200-202).
PromptStepWith(t, raisings) ==
    /\ pc[t] = "prompt"
    /\ \E raises \in raisings :
        IF raises
        THEN /\ NextBatch(t)
             /\ Note(t, "batch_failed")
             /\ UNCHANGED comps
        ELSE \E o \in Outputs(bstart[t] + bj[t]) :
                /\ comps' = [comps EXCEPT ![t] = ProcessPrompt(@, o)]
                /\ IF bj[t] + 1 < BatchLen(t)
                   THEN /\ bj' = [bj EXCEPT ![t] = @ + 1]
                        /\ UNCHANGED <<pc, bstart>>
                   ELSE NextBatch(t)
                /\ UNCHANGED events
    /\ UNCHANGED <<shared, geo, store, caller, image, grid, bsize, ret, http>>

PromptStep(t) == PromptStepWith(t, BOOLEAN)

\* lines 204-209: unload the model, return the components
Finish(t) ==
    /\ pc[t] = "batch"
    /\ bstart[t] >= NPrompts
    /\ model' = UnloadLocalModel(model, processor)[1]
    /\ processor' = UnloadLocalModel(model, processor)[2]
    /\ Return(t, comps[t])
    /\ UNCHANGED <<device, inflight, hw, weights, pool, geo, store, caller, image, bsize, http, events>>

\* The run in an environment where nothing raises of itself: the weights and
\* the preprocessor load, the forward pass and the mask arithmetic succeed.
ServiceNoFault(t) ==
    \/ Acquire(t)
    \/ LoadModelWith(t, {"ok"})
    \/ AssignModel(t)
    \/ LoadProcessorWith(t, {TRUE})
    \/ CheckLoaded(t)
    \/ OpenImage(t)
    \/ BatchInferWith(t, {FALSE})
    \/ PromptStepWith(t, {FALSE})
    \/ Finish(t)

Service(t) ==
    \/ Acquire(t)
    \/ LoadModel(t)
    \/ AssignModel(t)
    \/ LoadProcessor(t)
    \/ CheckLoaded(t)
    \/ OpenImage(t)
    \/ BatchInfer(t)
    \/ PromptStep(t)
    \/ Finish(t)

\* sam_service.generate_3d_masks(image_path), called outside a request
CallDirectOn(t, images) ==
    /\ pc[t] = "idle"
    /\ \E im \in images : image' = [image EXCEPT ![t] = im]
    /\ caller' = [caller EXCEPT ![t] = "direct"]
    /\ pc' = [pc EXCEPT ![t] = "acquire"]
    /\ events' = [events EXCEPT ![t] = {}]
    /\ ret' = [ret EXCEPT ![t] = <<>>]
    /\ UNCHANGED <<shared, geo, store, grid, comps, bsize, bstart, bj, http>>

CallDirect(t) == CallDirectOn(t, {"ok", "malformed"})

----------------------------------------------------------------------------
(* routes/generate_3d.py: the data of a request *)

\* Uploaded files: "img" is a readable image, "bad" is a file PIL cannot
\* open, "missing" names no file.
ImageIds == {"img", "bad", "missing"}

\* image_id of a request body: absent ("None") or the name of a file
RequestIds == {"None", "img", "bad", "missing"}
Stored == {"img", "bad"}

\* product_info: its category ("None" stands for a product_info without one).
ProductInfos == {"smartphone", "car"}

\* The same with a product_info that is absent or names no category.
AnyProductInfos == {"None", "smartphone", "car"}

\* product_info.get('category', default)
CategoryOr(product_info, default) ==
    IF product_info = "None" THEN default ELSE product_info

\* A response body (a Python dict): `keys` are the keys it holds, the other
\* fields their values.
EmptyBody ==
    [keys |-> {}, device_type |-> "None", components |-> <<>>, method |-> "None",
     processing_time |-> 0, cached |-> FALSE, model_type |-> "None",
     note |-> "None", error |-> "None", sam3d_available |-> FALSE]

\* `origin` is the product_info the returned result was computed for.
NoResponse == [status |-> 0, body |-> EmptyBody, origin |-> "None"]

Response(status, body, from) == [status |-> status, body |-> body, origin |-> from]

ErrorBody(msg) == [EmptyBody EXCEPT !.keys = {"error"}, !.error = msg]

----------------------------------------------------------------------------
(* json.dump / json.load of a result: the file holds, key by key in the    *)
(* dict's order, the JSON text of each value.                              *)

KeyOrder ==
    <<"device_type", "components", "method", "processing_time", "cached",
      "model_type", "model_url", "note", "bounds">>

JsonBool(b) == IF b THEN "true" ELSE "false"

JsonValue(body, k) ==
    CASE k = "device_type" -> <<"string", body.device_type>>
      [] k = "components" -> <<"array", body.components>>
      [] k = "method" -> <<"string", body.method>>
      [] k = "processing_time" -> <<"number", body.processing_time>>
      [] k = "cached" -> <<"literal", JsonBool(body.cached)>>
      [] k = "model_type" -> <<"string", body.model_type>>
      [] k = "model_url" -> <<"literal", "null">>
      [] k = "note" -> <<"string", body.note>>
      [] k = "bounds" -> <<"object", body.device_type = "smartphone">>

RECURSIVE DumpKeys(_, _)
DumpKeys(body, ks) ==
    IF ks = <<>> THEN <<>>
    ELSE IF Head(ks) \in body.keys
         THEN <<<<Head(ks), JsonValue(body, Head(ks))>>>> \o DumpKeys(body, Tail(ks))
         ELSE DumpKeys(body, Tail(ks))

JsonDump(body) == DumpKeys(body, KeyOrder)

LoadPair(body, kv) ==
    LET k == kv[1]
        v == kv[2][2]
        b == [body EXCEPT !.keys = @ \cup {k}]
    IN CASE k = "device_type" -> [b EXCEPT !.device_type = v]
         [] k = "components" -> [b EXCEPT !.components = v]
         [] k = "method" -> [b EXCEPT !.method = v]
         [] k = "processing_time" -> [b EXCEPT !.processing_time = v]
         [] k = "cached" -> [b EXCEPT !.cached = (v = "true")]
         [] k = "model_type" -> [b EXCEPT !.model_type = v]
         [] k = "note" -> [b EXCEPT !.note = v]
         [] OTHER -> b

RECURSIVE LoadPairs(_, _)
LoadPairs(body, doc) ==
    IF doc = <<>> THEN body ELSE LoadPairs(LoadPair(body, Head(doc)), Tail(doc))

JsonLoad(doc) == LoadPairs(EmptyBody, doc)

\* The cache file of an image: absent, opened for writing and not yet
\* written ("partial"), or complete.
NoFile == [state |-> "absent", doc |-> <<>>]
PartialFile == [state |-> "partial", doc |-> <<>>]
CompleteFile(doc) == [state |-> "complete", doc |-> doc]

\* A request; `entry` is the cache file as the request found it and `seen`
\* whether a freshly computed result had been returned for the image before.
NoRequest ==
    [image_id |-> "None", product_info |-> "None", force |-> FALSE,
     entry |-> NoFile, seen |-> FALSE]

----------------------------------------------------------------------------
(* generate_placeholder_model *)

Part(id, name, position, scale, geometry, color) ==
    [id |-> id, name |-> name, position |-> position, scale |-> scale,
     confidence |-> 0, source |-> "None", geometry |-> geometry, color |-> color,
     rotation |-> "None"]

\* component_configs['smartphone'], positions and scales in hundredths
SmartphoneParts ==
    << Part("display", "Display Screen", <<0, 30, 4>>, <<35, 70, 1>>, "box", "#1a1a2e"),
       Part("cpu", "Processor", <<0, 10, 0>>, <<8, 8, 2>>, "roundedBox", "#4a5568"),
       Part("battery", "Battery", <<0, -15, 0>>, <<30, 35, 3>>, "box", "#2d3748"),
       [Part("camera", "Camera Module", <<-12, 55, 3>>, <<12, 12, 2>>, "cylinder", "#1a202c")
            EXCEPT !.rotation = "x90"],
       Part("memory", "RAM Module", <<8, 15, 0>>, <<6, 4, 1>>, "box", "#718096") >>

\* A lookup without the default catalog.
ComponentConfigStrict(category) ==
    IF category = "smartphone" THEN SmartphoneParts ELSE <<>>

\* component_configs.get(category, component_configs['smartphone'])
ComponentConfig(category) == SmartphoneParts

GeneratePlaceholderModel(product_info) ==
    [EmptyBody EXCEPT
        !.keys = {"components", "device_type", "model_type", "model_url", "bounds"},
        !.model_type = "placeholder",
        !.components = ComponentConfig(CategoryOr(product_info, "smartphone")),
        !.device_type = CategoryOr(product_info, "smartphone")]

----------------------------------------------------------------------------
(* generate_complex_components: what comes back from the generative call *)

\* A component list as the generative model may write it.
GeneratedParts ==
    << Part("shell", "Main Housing", <<0, 0, -6>>, <<40, 60, 2>>, "roundedBox", "#64748b"),
       Part("logic_board", "Logic Board", <<10, 20, 0>>, <<12, 30, 1>>, "box", "#064e3b") >>

GenOutcomes == {"components", "error", "empty_components", "no_components"}

\* The dict generate_complex_components returns: the parsed JSON object, or
\* {"error": ...} (image not found, unparseable text, any exception).
GenerateComplexComponents(outcome, product_info) ==
    CASE outcome = "components" ->
            [EmptyBody EXCEPT !.keys = {"components", "device_type"},
                              !.device_type = CategoryOr(product_info, "smartphone"),
                              !.components = GeneratedParts]
      [] outcome = "empty_components" ->
            [EmptyBody EXCEPT !.keys = {"components", "device_type"},
                              !.device_type = CategoryOr(product_info, "smartphone")]
      [] outcome = "no_components" ->
            [EmptyBody EXCEPT !.keys = {"device_type"},
                              !.device_type = CategoryOr(product_info, "smartphone")]
      [] outcome = "error" -> ErrorBody("generation failed")

----------------------------------------------------------------------------
(* enrich_sam_components *)

DescribeOutcomes == {"fails", "maps_all", "maps_first", "malformed_entry"}

\* The responses on which enrichment ends in its handler (lines 251-253): the
\* call or the parse raises, or the entry of the second component is no object
\* and attrs.get raises (line 235).
FailedDescribes == {"fails", "malformed_entry"}

\* enrichment_map: the ids the describe response names, with their attributes
Attrs(name, geometry, color) == [name |-> name, geometry |-> geometry, color |-> color]

MappedIds(outcome, sam_components) ==
    CASE outcome \in {"maps_all", "malformed_entry"} ->
            {sam_components[i].id : i \in 1..Len(sam_components)}
      [] outcome = "maps_first" -> {"sam_0"}
      [] OTHER -> {}

AttrsOf(id) ==
    IF id = "sam_0" THEN Attrs("Front Wheel", "cylinder", "#111827")
    ELSE IF id = "sam_1" THEN Attrs("Absent", "torus", "Absent")
    ELSE Attrs("Logic Board", "Absent", "#064e3b")

\* The index of the component at whose entry the loop of line 233 raises
\* (past the end when it does not).
RaisesAt(outcome, sam_components) ==
    IF outcome = "malformed_entry" THEN 2 ELSE Len(sam_components) + 1

\* An enrichment that also fits the box to the geometry it names.
EnrichedResized(comp, attrs) ==
    [comp EXCEPT
        !.name = IF attrs.name = "Absent" THEN comp.name ELSE attrs.name,
        !.geometry = IF attrs.geometry = "Absent" THEN "box" ELSE attrs.geometry,
        !.color = IF attrs.color = "Absent" THEN "#888888" ELSE attrs.color,
        !.scale = IF attrs.geometry = "torus"
                  THEN <<comp.scale[1], comp.scale[1], comp.scale[3]>>
                  ELSE <<comp.scale[2], comp.scale[1], comp.scale[3]>>]

\* lines 234-244, for one component named in the map
Enriched(comp, attrs) ==
    LET name == IF attrs.name = "Absent" THEN comp.name ELSE attrs.name
        geometry == IF attrs.geometry = "Absent" THEN "box" ELSE attrs.geometry
        color == IF attrs.color = "Absent" THEN "#888888" ELSE attrs.color
    IN [comp EXCEPT
           !.name = name,
           !.geometry = geometry,
           !.color = color,
           !.rotation = IF geometry = "cylinder" /\ name = "Front Wheel" THEN "z90"
                        ELSE IF geometry = "torus" THEN "x90"
                        ELSE comp.rotation]

\* An enrichment that gives the defaults of lines 237-238 to the components
\* the mapping does not name.
EnrichAllComponents(sam_components, outcome) ==
    [i \in 1..Len(sam_components) |->
        IF /\ sam_components[i].id \in MappedIds(outcome, sam_components)
           /\ i < RaisesAt(outcome, sam_components)
        THEN Enriched(sam_components[i], AttrsOf(sam_components[i].id))
        ELSE [sam_components[i] EXCEPT !.geometry = "box", !.color = "#888888"]]

\* The loop mutates the components in place (lines 236-244) and the handler
\* returns that same list (line 253): what was applied before a raise stays.
EnrichSamComponents(sam_components, outcome) ==
    [i \in 1..Len(sam_components) |->
        IF /\ sam_components[i].id \in MappedIds(outcome, sam_components)
           /\ i < RaisesAt(outcome, sam_components)
        THEN Enriched(sam_components[i], AttrsOf(sam_components[i].id))
        ELSE sam_components[i]]

----------------------------------------------------------------------------
(* generate_3d *)

\* lines 307-313
SegmentedResult(enriched_components, product_info, elapsed) ==
    [EmptyBody EXCEPT
        !.keys = {"components", "device_type", "method", "processing_time", "cached"},
        !.device_type = CategoryOr(product_info, "device"),
        !.components = enriched_components,
        !.method = "local_sam_base_plus_gemini",
        !.processing_time = elapsed,
        !.cached = FALSE]

\* lines 333-343
ProceduralResult(generated, product_info, elapsed) ==
    LET base == IF "error" \in generated.keys
                THEN [GeneratePlaceholderModel(product_info) EXCEPT
                         !.keys = @ \cup {"note"},
                         !.note = "Using placeholder model due to generation error."]
                ELSE generated
    IN [base EXCEPT
           !.keys = @ \cup {"method", "processing_time", "cached", "model_url"},
           !.processing_time = elapsed,
           !.cached = FALSE,
           !.method = "gemini_procedural"]

\* A hit that returns the file's content without marking it.
CachedResultUnmarked(doc) == JsonLoad(doc)

\* lines 283-287: the cached result, marked as cached
CachedResult(doc) == [JsonLoad(doc) EXCEPT !.keys = @ \cup {"cached"}, !.cached = TRUE]

\* A gate that opens on the file alone, and one that opens only when forced.
CacheGateNoForce(file, force_regenerate) == file.state # "absent"

CacheGateInverted(file, force_regenerate) == file.state # "absent" /\ force_regenerate

\* line 283: os.path.exists(cache_path) and not force_regenerate
CacheGate(file, force_regenerate) == file.state # "absent" /\ ~force_regenerate

\* lines 260-299: the request up to the call of the discovery service, for
\* requests with image_id in ids and product_info in infos, on a host where
\* the import of the discovery service succeeds or not as in importables and
\* the cache file can be read or not as in readables
Generate3dFrom(t, ids, infos, importables, readables) ==
    /\ pc[t] = "idle"
    /\ \E id \in ids, info \in infos, force \in BOOLEAN, importable \in importables,
          readable \in readables :
        /\ req' = [req EXCEPT ![t] =
                      [image_id |-> id, product_info |-> info, force |-> force,
                       entry |-> IF id \in Stored THEN cache[id] ELSE NoFile,
                       seen |-> id \in Stored /\ "method" \in fresh[id].keys]]
        /\ events' = [events EXCEPT ![t] =
              IF id \in Stored /\ ~CacheGate(cache[id], force) /\ ~importable
              THEN {"discovery_raised"}
              ELSE IF id \in Stored /\ CacheGate(cache[id], force) /\ ~readable
              THEN {"cache_read_failed"} ELSE {}]
        /\ IF id = "None"
           THEN /\ resp' = [resp EXCEPT ![t] =
                               Response(400, ErrorBody("image_id is required"), "None")]
                /\ UNCHANGED <<pc, caller, image>>
           ELSE IF id \notin Stored
           THEN /\ resp' = [resp EXCEPT ![t] =
                               Response(404, ErrorBody("Image not found"), "None")]
                /\ UNCHANGED <<pc, caller, image>>
           ELSE IF CacheGate(cache[id], force)
           THEN /\ resp' = [resp EXCEPT ![t] =
                               IF ~readable
                               THEN Response(500, ErrorBody("OSError"), "None")
                               ELSE IF cache[id].state = "complete"
                               THEN Response(200, CachedResult(cache[id].doc), origin[id])
                               ELSE Response(500, ErrorBody("JSONDecodeError"), "None")]
                /\ UNCHANGED <<pc, caller, image>>
           ELSE /\ image' = [image EXCEPT ![t] = IF id = "bad" THEN "malformed" ELSE "ok"]
                /\ caller' = [caller EXCEPT ![t] = "route"]
                /\ pc' = [pc EXCEPT ![t] = IF importable THEN "acquire" ELSE "generate"]
                /\ resp' = [resp EXCEPT ![t] = NoResponse]
    /\ UNCHANGED <<shared, geo, store, grid, comps, bsize, bstart, bj, ret, result>>

\* A test that takes 4 components, and one that takes any non-empty result.
EnoughComponentsFour(sam_components) == Len(sam_components) >= 4


EnoughComponentsAny(sam_components) == Len(sam_components) > 0

\* line 302: sam_components and len(sam_components) >= 5
EnoughComponents(sam_components) ==
    Len(sam_components) > 0 /\ Len(sam_components) >= MIN_COMPONENTS

\* lines 302-321: the discovery result is used when it has 5 or more components
Tier1(t) ==
    /\ pc[t] = "tier1"
    /\ IF EnoughComponents(ret[t])
       THEN \E described \in DescribeOutcomes, elapsed \in {1, 2} :
            /\ result' = [result EXCEPT ![t] =
                             SegmentedResult(EnrichSamComponents(ret[t], described),
                                             req[t].product_info, elapsed)]
            /\ events' = [events EXCEPT ![t] = @ \cup {"describe", "segmented"}]
            /\ pc' = [pc EXCEPT ![t] = "cache_open"]
       ELSE /\ events' = [events EXCEPT ![t] = @ \cup {"too_few"}]
            /\ pc' = [pc EXCEPT ![t] = "generate"]
            /\ UNCHANGED result
    /\ UNCHANGED <<shared, geo, store, caller, run, req, resp>>

\* lines 330-343: the generative call, and the placeholder when it fails
Generate(t) ==
    /\ pc[t] = "generate"
    /\ \E outcome \in GenOutcomes, elapsed \in {1, 2} :
        /\ image[t] = "malformed" => outcome = "error"
        /\ result' = [result EXCEPT ![t] =
              ProceduralResult(GenerateComplexComponents(outcome, req[t].product_info),
                               req[t].product_info, elapsed)]
        /\ events' = [events EXCEPT ![t] =
              @ \cup {"generate"} \cup (IF outcome = "error" THEN {"generate_failed"} ELSE {})]
    /\ pc' = [pc EXCEPT ![t] = "cache_open"]
    /\ UNCHANGED <<shared, geo, store, caller, run, req, resp>>

\* A write to the cache file raises.  The write of the segmented result is
\* inside the try block of lines 296-328, whose handler goes on to the
\* generative call; the write of lines 346-347 is in no try block.
WriteRaises(t) ==
    /\ events' = [events EXCEPT ![t] = @ \cup {"cache_write_failed"}]
    /\ IF result[t].method = "local_sam_base_plus_gemini"
       THEN /\ pc' = [pc EXCEPT ![t] = "generate"]
            /\ UNCHANGED <<ret, result, resp>>
       ELSE /\ pc' = [pc EXCEPT ![t] = "idle"]
            /\ resp' = [resp EXCEPT ![t] = Response(500, ErrorBody("OSError"), "None")]
            /\ result' = [result EXCEPT ![t] = EmptyBody]
            /\ ret' = [ret EXCEPT ![t] = <<>>]

\* lines 316 and 346: open(cache_path, 'w') empties the file, or raises
CacheOpenWith(t, writables) ==
    /\ pc[t] = "cache_open"
    /\ \E writable \in writables :
        IF writable
        THEN /\ cache' = [cache EXCEPT ![req[t].image_id] = PartialFile]
             /\ events' = [events EXCEPT ![t] = @ \cup {"cache_write"}]
             /\ pc' = [pc EXCEPT ![t] = "cache_dump"]
             /\ UNCHANGED <<ret, result, resp>>
        ELSE /\ WriteRaises(t)
             /\ UNCHANGED cache
    /\ UNCHANGED <<shared, geo, origin, fresh, caller, image, grid, comps, bsize, bstart, bj, req>>

CacheOpen(t) == CacheOpenWith(t, {TRUE})

\* The file after doc is written from offset 0 through a handle opened
\* before the file got its present content.  A complete file there was
\* written by another request after this one's open: when it is the longer
\* one its tail stays behind the new text and the file does not parse.  The
\* model does not keep the lengths: two different texts go either way.
Written(file, doc) ==
    IF file.state = "complete" /\ file.doc # doc
    THEN {CompleteFile(doc), PartialFile}
    ELSE {CompleteFile(doc)}

\* lines 317-319 and 347-349: json.dump(result, f), return jsonify(result);
\* a dump that raises leaves the file as the open left it
CacheDumpWith(t, writables) ==
    /\ pc[t] = "cache_dump"
    /\ \E writable \in writables :
        IF writable
        THEN /\ \E file \in Written(cache[req[t].image_id], JsonDump(result[t])) :
                    cache' = [cache EXCEPT ![req[t].image_id] = file]
             /\ origin' = [origin EXCEPT ![req[t].image_id] = req[t].product_info]
             /\ fresh' = [fresh EXCEPT ![req[t].image_id] = result[t]]
             /\ resp' = [resp EXCEPT ![t] =
                             Response(200, result[t], req[t].product_info)]
             /\ result' = [result EXCEPT ![t] = EmptyBody]
             /\ ret' = [ret EXCEPT ![t] = <<>>]
             /\ pc' = [pc EXCEPT ![t] = "idle"]
             /\ UNCHANGED events
        ELSE /\ WriteRaises(t)
             /\ UNCHANGED <<cache, origin, fresh>>
    /\ UNCHANGED <<shared, geo, caller, image, grid, comps, bsize, bstart, bj, req>>

CacheDump(t) == CacheDumpWith(t, {TRUE})

\* lines 351-357: GET /generate-3d/status
StatusBody ==
    [EmptyBody EXCEPT
        !.keys = {"sam3d_available", "methods_available", "recommended_method"},
        !.sam3d_available = TRUE]

GenerationStatus(t) ==
    /\ pc[t] = "idle"
    /\ resp' = [resp EXCEPT ![t] = Response(200, StatusBody, "None")]
    /\ req' = [req EXCEPT ![t] = NoRequest]
    /\ events' = [events EXCEPT ![t] = {}]
    /\ UNCHANGED <<shared, geo, store, pc, caller, run, result>>

Generate3d(t) ==
    Generate3dFrom(t, RequestIds, ProductInfos, BOOLEAN, {TRUE})

Route(t) ==
    \/ Generate3d(t)
    \/ GenerationStatus(t)
    \/ Tier1(t)
    \/ Generate(t)
    \/ CacheOpen(t)
    \/ CacheDump(t)

----------------------------------------------------------------------------
(* routes/supply_chain.py: geocoding of the locations of a supply chain.   *)
(* A text is the tuple of its characters, so that lower(), strip(),        *)
(* split(',') and `in` are computed as Python computes them.  Coordinates  *)
(* are <<lat, lng>> in whole degrees.                                      *)

None == <<>>

UpperCase == <<"A", "B", "C", "D", "E", "F", "G", "H", "I", "J", "K", "L", "M",
               "N", "O", "P", "Q", "R", "S", "T", "U", "V", "W", "X", "Y", "Z">>
LowerCase == <<"a", "b", "c", "d", "e", "f", "g", "h", "i", "j", "k", "l", "m",
               "n", "o", "p", "q", "r", "s", "t", "u", "v", "w", "x", "y", "z">>

\* str.lower()
Lower(s) ==
    [i \in 1..Len(s) |->
        IF \E k \in 1..Len(UpperCase) : UpperCase[k] = s[i]
        THEN LowerCase[CHOOSE k \in 1..Len(UpperCase) : UpperCase[k] = s[i]]
        ELSE s[i]]

Least(S) == CHOOSE i \in S : \A j \in S : i <= j
Greatest(S) == CHOOSE i \in S : \A j \in S : j <= i

\* str.strip()
Strip(s) ==
    LET inked == {i \in 1..Len(s) : s[i] # " "} IN
    IF inked = {} THEN <<>> ELSE SubSeq(s, Least(inked), Greatest(inked))

\* a in b, for texts
IsIn(a, b) == \E i \in 1..(Len(b) - Len(a) + 1) : SubSeq(b, i, i + Len(a) - 1) = a

Paris == <<"p", "a", "r", "i", "s">>
ParisFrance == <<"p", "a", "r", "i", "s", ",", " ", "f", "r", "a", "n", "c", "e">>
China == <<"c", "h", "i", "n", "a">>
ShenzhenChina == <<"s", "h", "e", "n", "z", "h", "e", "n", ",", " ", "c", "h", "i", "n", "a">>
Taiwan == <<"t", "a", "i", "w", "a", "n">>
Atlantis == <<"a", "t", "l", "a", "n", "t", "i", "s">>

\* CITY_DB as load_city_database leaves it for a file with the row of Paris:
\* one key "city, country" and one key "city".
CITY_DB == (Paris :> <<49, 2>>) @@ (ParisFrance :> <<49, 2>>)

\* GEOCODE_FALLBACK, in the order of the dict: its first three entries
GEOCODE_FALLBACK ==
    << <<China, <<36, 104>>>>, <<ShenzhenChina, <<23, 114>>>>, <<Taiwan, <<24, 121>>>> >>

\* lines 178-190: the key of CITY_DB that answers loc_lower, as a tuple of
\* none or one key: loc_lower itself, or "city, country" made of its first
\* and last comma-separated parts.
CityKey(loc_lower) ==
    LET commas == {i \in 1..Len(loc_lower) : loc_lower[i] = ","}
        key == Strip(SubSeq(loc_lower, 1, Least(commas) - 1)) \o <<",", " ">>
               \o Strip(SubSeq(loc_lower, Greatest(commas) + 1, Len(loc_lower)))
    IN  IF loc_lower \in DOMAIN CITY_DB THEN <<loc_lower>>
        ELSE IF commas # {} /\ key \in DOMAIN CITY_DB THEN <<key>>
        ELSE <<>>

\* lines 193-199: the exact entry of the fallback table, else the first entry
\* whose key is in loc_lower or has loc_lower in it, else None.
FallbackCoords(loc_lower) ==
    LET entries == 1..Len(GEOCODE_FALLBACK)
        exact == {k \in entries : GEOCODE_FALLBACK[k][1] = loc_lower}
        partial == {k \in entries : \/ IsIn(GEOCODE_FALLBACK[k][1], loc_lower)
                                    \/ IsIn(loc_lower, GEOCODE_FALLBACK[k][1])}
    IN  IF exact # {} THEN GEOCODE_FALLBACK[Least(exact)][2]
        ELSE IF partial # {} THEN GEOCODE_FALLBACK[Least(partial)][2]
        ELSE None

\* The place the remote service holds for a query.
Nominatim(location_name) ==
    IF Strip(Lower(location_name)) = Atlantis THEN <<32, -25>> ELSE <<-25, 134>>

\* What one request to the remote service may end in: requests.get raises
\* (or the answer does not parse), 429, 200 with an empty list, another
\* status, 200 with a result.
Responses == {"empty", "found", "exception", "rate_limited", "other_status"}

max_retries == 3

\* One attempt more than the loop makes.
RetryOnceMore(attempt) == attempt <= max_retries

\* line 203: for attempt in range(max_retries)
Retry(attempt) == attempt < max_retries

\* GEOCODE_CACHE[loc_lower] = coords
Remember(geocode_cache, loc_lower, coords) ==
    [k \in DOMAIN geocode_cache \cup {loc_lower} |->
        IF k = loc_lower THEN coords ELSE geocode_cache[k]]

Text(s) == [text |-> s, is_str |-> TRUE]

\* The location strings of a fan-out: "{city}, {country}" of a manufacturing
\* location (", " when it has neither) and source_country of a raw material,
\* which the researched JSON may give as a text, as "" or as a number.
Locations ==
    { Text(<<>>),
      Text(<<",", " ">>),
      [text |-> <<"8", "6">>, is_str |-> FALSE],
      Text(<<"O", "z">>),
      Text(<<"T", "a", "i", "w", "a", "n">>),
      Text(<<"A", "t", "l", "a", "n", "t", "i", "s">>),
      Text(<<"A", "T", "L", "A", "N", "T", "I", "S", " ">>),
      Text(<<"P", "a", "r", "i", "s", ",", " ", "F", "r", "a", "n", "c", "e">>),
      Text(<<"P", "a", "r", "i", "s", " ", ",", "F", "r", "a", "n", "c", "e">>),
      Text(<<"T", "a", "i", "p", "e", "i", ",", " ", "T", "a", "i", "w", "a", "n">>) }

\* loc_lower of a location string (line 159)
LocLower(loc) == Strip(Lower(loc.text))

\* lines 155-199 of geocode_location: what the call does before any request.
\* "raises": lower() of a number; "empty": not location_name.
Lookup(geocode_cache, loc) ==
    IF ~loc.is_str THEN [kind |-> "raises", coords |-> None]
    ELSE IF loc.text = <<>> THEN [kind |-> "empty", coords |-> None]
    ELSE IF LocLower(loc) \in DOMAIN geocode_cache
         THEN [kind |-> "cache", coords |-> geocode_cache[LocLower(loc)]]
    ELSE IF CityKey(LocLower(loc)) # <<>>
         THEN [kind |-> "city", coords |-> CITY_DB[CityKey(LocLower(loc))[1]]]
    ELSE IF FallbackCoords(LocLower(loc)) # None
         THEN [kind |-> "fallback", coords |-> FallbackCoords(LocLower(loc))]
    ELSE [kind |-> "remote", coords |-> None]

\* A pool worker with no call: at is the place of the call ("idle",
\* "submitted", "remote", "returned", "raised", "collected"), attempt the loop
\* variable, calls the requests made, coords what the call returned, obj the
\* lat and lng of the location object (None: it has none).
NoLookup ==
    [loc |-> Text(<<>>), at |-> "idle", attempt |-> 0, calls |-> 0,
     coords |-> None, obj |-> None]

\* lines 432-438: one geocode_location call is submitted per location object
\* without 'lat'.
FanOut ==
    /\ \A t \in Threads : lookups[t].at \in {"idle", "collected"}
    /\ \E locs \in [Threads -> Locations] :
        lookups' = [t \in Threads |-> [NoLookup EXCEPT !.loc = locs[t], !.at = "submitted"]]
    /\ UNCHANGED <<GEOCODE_CACHE, shared, store, pc, caller, run, http, events>>

\* lines 155-199: the call up to its first request
GeocodeStart(t) ==
    /\ lookups[t].at = "submitted"
    /\ LET found == Lookup(GEOCODE_CACHE, lookups[t].loc) IN
        /\ lookups' = [lookups EXCEPT
              ![t].at = CASE found.kind = "raises" -> "raised"
                          [] found.kind = "remote" -> "remote"
                          [] OTHER -> "returned",
              ![t].coords = found.coords]
        /\ GEOCODE_CACHE' = IF found.kind = "city"
                            THEN Remember(GEOCODE_CACHE, LocLower(lookups[t].loc), found.coords)
                            ELSE GEOCODE_CACHE
    /\ UNCHANGED <<shared, store, pc, caller, run, http, events>>

\* lines 202-241: one turn of the retry loop, with the request it makes
GeocodeAttempt(t) ==
    /\ lookups[t].at = "remote"
    /\ \E response \in Responses :
        IF response = "found"
        THEN /\ GEOCODE_CACHE' = Remember(GEOCODE_CACHE, LocLower(lookups[t].loc),
                                          Nominatim(lookups[t].loc.text))
             /\ lookups' = [lookups EXCEPT
                   ![t].calls = @ + 1,
                   ![t].at = "returned",
                   ![t].coords = Nominatim(lookups[t].loc.text)]
        ELSE /\ lookups' = [lookups EXCEPT
                   ![t].calls = @ + 1,
                   ![t].attempt = @ + 1,
                   ![t].at = IF Retry(lookups[t].attempt + 1) THEN "remote" ELSE "returned"]
             /\ UNCHANGED GEOCODE_CACHE
    /\ UNCHANGED <<shared, store, pc, caller, run, http, events>>

\* lines 440-447: the collecting thread takes a finished call, in the order
\* of completion, and updates the object the call was submitted for.
Collect(t) ==
    /\ lookups[t].at \in {"raised", "returned"}
    /\ lookups' = [lookups EXCEPT
          ![t].at = "collected",
          ![t].obj = IF lookups[t].at = "returned" /\ lookups[t].coords # None
                     THEN lookups[t].coords ELSE @]
    /\ UNCHANGED <<GEOCODE_CACHE, shared, store, pc, caller, run, http, events>>

----------------------------------------------------------------------------
(* Initial state: the process after its modules are imported *)

InitWith(pools, accelerators, installs) ==
    /\ model = NoModel
    /\ processor = NoModel
    /\ device = "None"
    /\ inflight = {}
    /\ hw \in accelerators
    /\ weights \in installs
    /\ pool \in pools
    /\ cache = [i \in Stored |-> NoFile]
    /\ origin = [i \in Stored |-> "None"]
    /\ fresh = [i \in Stored |-> EmptyBody]
    /\ pc = [t \in Threads |-> "idle"]
    /\ caller = [t \in Threads |-> "direct"]
    /\ image = [t \in Threads |-> "ok"]
    /\ grid = [t \in Threads |-> NoGrid]
    /\ comps = [t \in Threads |-> <<>>]
    /\ bsize = [t \in Threads |-> BatchSizeOf("None")]
    /\ bstart = [t \in Threads |-> 0]
    /\ bj = [t \in Threads |-> 0]
    /\ ret = [t \in Threads |-> <<>>]
    /\ req = [t \in Threads |-> NoRequest]
    /\ result = [t \in Threads |-> EmptyBody]
    /\ events = [t \in Threads |-> {}]
    /\ resp = [t \in Threads |-> NoResponse]
    /\ GEOCODE_CACHE = <<>>
    /\ lookups = [t \in Threads |-> NoLookup]

----------------------------------------------------------------------------
(* Requests served one at a time by one worker *)

Init == InitWith({"blank", "small"}, {"cpu"}, BOOLEAN)

Next == Route(1) \/ Service(1)

Spec == Init /\ [][Next]_vars

----------------------------------------------------------------------------
(* The geocoding fan-out of get_supply_chain, request after request: the    *)
(* calls of one fan-out run on the pool's threads and interleave.           *)

InitGeo == InitWith({"small"}, {"cpu"}, {TRUE})

NextGeo == FanOut \/ \E t \in Threads : GeocodeStart(t) \/ GeocodeAttempt(t) \/ Collect(t)

SpecGeo == InitGeo /\ [][NextGeo]_vars

----------------------------------------------------------------------------
(* Requests of every kind of product_info on a host without the discovery   *)
(* service's packages: each is served by the generative or the placeholder  *)
(* tier.                                                                    *)

InitCat == InitWith({"small"}, {"cpu"}, {FALSE})

NextCat ==
    \/ Generate3dFrom(1, {"img", "bad"}, AnyProductInfos, {FALSE}, {TRUE})
    \/ Generate(1)
    \/ CacheOpen(1)
    \/ CacheDump(1)

SpecCat == InitCat /\ [][NextCat]_vars

----------------------------------------------------------------------------
(* Requests for one image on a host whose cache folder may fail to be read  *)
(* or written                                                               *)

InitFault == InitWith({"small"}, {"cpu"}, {TRUE})

NextFault ==
    \/ Generate3dFrom(1, {"img"}, {"smartphone"}, BOOLEAN, BOOLEAN)
    \/ Tier1(1)
    \/ Generate(1)
    \/ CacheOpenWith(1, BOOLEAN)
    \/ CacheDumpWith(1, BOOLEAN)
    \/ Service(1)

SpecFault == InitFault /\ [][NextFault]_vars

----------------------------------------------------------------------------
(* Discovery runs of one worker, every kind of model output *)

InitRun == InitWith({"rich"}, {"mps", "cpu"}, BOOLEAN)

NextRun == CallDirect(1) \/ Service(1)

SpecRun == InitRun /\ [][NextRun]_vars

\* The worker runs its code to the end: a started run is not left half-way.
FairRun == SpecRun /\ WF_vars(NextRun)

----------------------------------------------------------------------------
(* One image on hosts of different batch sizes.  A whole run of             *)
(* generate_3d_masks_local as a function of the batch size, of the output   *)
(* the model gives per prompt and of the prompts whose inference raises.    *)

\* lines 131-192 for the prompts k..(end - 1) of one batch
RECURSIVE FoldBatch(_, _, _, _)
FoldBatch(components, outs, k, end) ==
    IF k >= end THEN components
    ELSE FoldBatch(ProcessPrompt(components, outs[k]), outs, k + 1, end)

\* lines 104-202 from the batch that starts at prompt i: the inference of
\* lines 110-129 is one call for the batch, and when it raises the handler
\* of lines 200-202 goes on to the next batch.
RECURSIVE DiscoverFrom(_, _, _, _, _)
DiscoverFrom(components, batch_size, outs, failing, i) ==
    IF i >= NPrompts THEN components
    ELSE LET end == IF i + batch_size <= NPrompts THEN i + batch_size ELSE NPrompts
         IN IF \E k \in i..(end - 1) : k \in failing
            THEN DiscoverFrom(components, batch_size, outs, failing, i + batch_size)
            ELSE DiscoverFrom(FoldBatch(components, outs, i, end),
                              batch_size, outs, failing, i + batch_size)

\* The batch size line 102 gives on the other kind of host.
OtherSizes == {BatchSizeOf("mps")}

\* Prompts whose inference may raise: none, or one of the first twelve.
Failings == {{}} \cup {{k} : k \in 0..11}

\* Worker 1 is the host with the batch size of a cpu, the other workers are
\* hosts with another batch size; all are given the same image, outputs and
\* failing prompts.  Each host runs once: before the run no batch size has
\* told the hosts apart.
DiscoverOnHosts ==
    /\ \A t \in Threads : pc[t] = "idle" /\ bsize[t] = bsize[1]
    /\ \E c0 \in Outputs(0), c1 \in Outputs(1), c2 \in Outputs(2), c3 \in Outputs(3),
          c4 \in Outputs(4), c5 \in Outputs(5), failing \in Failings,
          other \in OtherSizes :
        LET outs == [k \in 0..(NPrompts - 1) |->
                        CASE k = 0 -> c0 [] k = 1 -> c1 [] k = 2 -> c2 [] k = 3 -> c3
                          [] k = 4 -> c4 [] k = 5 -> c5 [] OTHER -> LowScore]
            size == [t \in Threads |-> IF t = 1 THEN BatchSizeOf("cpu") ELSE other]
        IN /\ bsize' = size
           /\ ret' = [t \in Threads |-> DiscoverFrom(<<>>, size[t], outs, failing, 0)]
    /\ UNCHANGED <<shared, geo, store, pc, caller, image, grid, comps, bstart, bj, http, events>>

InitSizes == InitWith({"rich"}, {"cpu"}, {TRUE})

NextSizes == DiscoverOnHosts

SpecSizes == InitSizes /\ [][NextSizes]_vars

----------------------------------------------------------------------------
(* Discovery runs of all workers at once on the one sam_service: Flask      *)
(* serves each request on a thread of its own.                              *)

InitConc == InitWith({"small"}, {"cpu"}, {TRUE})

NextConc == \E t \in Threads : CallDirect(t) \/ Service(t)

SpecConc == InitConc /\ [][NextConc]_vars

----------------------------------------------------------------------------
(* Runs of all workers on one readable image, one model output per prompt,  *)
(* nothing raising of itself.                                               *)

InitTwin == InitWith({"twin"}, {"cpu"}, {TRUE})

NextTwin == \E t \in Threads : CallDirectOn(t, {"ok"}) \/ ServiceNoFault(t)

SpecTwin == InitTwin /\ [][NextTwin]_vars

\* The same, one worker only: the runs follow one another.
NextSolo == CallDirectOn(1, {"ok"}) \/ ServiceNoFault(1)

SpecSolo == InitTwin /\ [][NextSolo]_vars

----------------------------------------------------------------------------
(* Requests of all workers for one image at once, the discovery service not *)
(* importable, no fault of the file system.                                 *)

InitShare == InitWith({"small"}, {"cpu"}, {TRUE})

NextShare ==
    \E t \in Threads :
        \/ Generate3dFrom(t, {"img"}, {"smartphone"}, {FALSE}, {TRUE})
        \/ Generate(t)
        \/ CacheOpen(t)
        \/ CacheDump(t)

SpecShare == InitShare /\ [][NextShare]_vars

----------------------------------------------------------------------------
(* Runs of one worker up to the prompt grid, on images of every small size  *)

Sides == 1..MaxSide

InitGrid == InitWith({"blank"}, {"cpu"}, {TRUE})

NextGrid ==
    \/ CallDirectOn(1, {"ok"})
    \/ Acquire(1)
    \/ LoadModelWith(1, {"ok"})
    \/ AssignModel(1)
    \/ LoadProcessorWith(1, {TRUE})
    \/ CheckLoaded(1)
    \/ OpenImageOf(1, Sides, Sides)

SpecGrid == InitGrid /\ [][NextGrid]_vars

----------------------------------------------------------------------------
(* Claims on discovery runs *)

InRun == {"open", "batch", "prompt"}

CenterOf(c) == <<ExX2(c.position[1]), ExY2(c.position[2])>>

Apart(a, b) ==
    ~WithinRadius(CenterOf(a)[1], CenterOf(a)[2], CenterOf(b)[1], CenterOf(b)[2])

PairwiseApart(cs) ==
    \A i \in 1..Len(cs) : \A k \in 1..Len(cs) : i < k => Apart(cs[i], cs[k])

\* C3: every two distinct components of the list a discovery run returns
\* have normalized centers at Euclidean distance >= 0.1.
C3_DedupInvariant == \A t \in Threads : PairwiseApart(ret[t])

\* C4: every single-threaded discovery run returns, and when it has returned
\* neither a model nor a preprocessor is resident, whether it ends with
\* components, after a failed load, or through an exception.
C4_RunReleasesModel ==
    /\ [](pc[1] = "idle" => (model = NoModel /\ processor = NoModel))
    /\ [](pc[1] # "idle" => <>(pc[1] = "idle"))

C4_Witness ==
    /\ pc[1] = "idle"
    /\ Len(ret[1]) > 0
    /\ model = NoModel
    /\ processor = NoModel

\* The candidates the prompt a run has arrived at may give.
Candidates(t) == IF pc[t] = "prompt" THEN Outputs(bstart[t] + bj[t]) ELSE {}

\* Score at least 0.70, a mask that is not empty, not both sides above 0.9
\* of the image, no side below 0.05 of it.
Passes(o) ==
    /\ o.score >= 70
    /\ ~o.empty
    /\ ~(10 * (o.xmax - o.xmin) > 9 * ImgW /\ 10 * (o.ymax - o.ymin) > 9 * ImgH)
    /\ 20 * (o.xmax - o.xmin) >= ImgW
    /\ 20 * (o.ymax - o.ymin) >= ImgH

\* C21: at every point of a run, a candidate is appended or merged into a
\* component exactly when it passes the four tests (score, empty mask, whole
\* image, noise); a candidate that fails one leaves the list as it is.
C21_RejectionFilter ==
    \A t \in Threads : \A o \in Candidates(t) :
        LET after == ProcessPrompt(comps[t], o) IN
        IF Passes(o)
        THEN /\ after = Merge(comps[t], o)
             /\ DuplicateOf(comps[t], o) = 0 =>
                   /\ Len(after) = Len(comps[t]) + 1
                   /\ after[Len(after)].confidence = o.score
             /\ DuplicateOf(comps[t], o) # 0 => Len(after) = Len(comps[t])
        ELSE after = comps[t]

\* The wide strip (one side above 0.9 only) has been accepted after the
\* whole-image, empty and low-score candidates were met.
C21_Witness ==
    /\ pc[1] = "prompt"
    /\ bstart[1] + bj[1] >= 8
    /\ \E i \in 1..Len(comps[1]) : comps[1][i].scale[1] = BoxW(BoxWide)

\* C22: a candidate whose normalized width is exactly 0.05 is rejected and
\* one whose width is 0.051 or more is accepted, the score being at least
\* 0.70 and the height within the limits; so no accepted component has
\* width exactly 0.05.
C22_NoiseBoundary ==
    /\ \A t \in Threads : \A o \in Candidates(t) :
          (o.score >= 70 /\ ~o.empty /\ 20 * BoxH(o) > ImgH /\ 10 * BoxH(o) <= 9 * ImgH) =>
              /\ 20 * BoxW(o) = ImgW => Rejected(o)
              /\ 1000 * BoxW(o) >= 51 * ImgW => ~Rejected(o)
    /\ \A t \in Threads : \A i \in 1..Len(comps[t]) : 20 * comps[t][i].scale[1] # ImgW

\* C23: for the same outputs per prompt, a run with batch size 4, one with
\* batch size 12 and one with any other batch size return the same list,
\* also when the inference of some prompt raises.
C23_BatchSizeUnobservable ==
    \A t \in Threads : \A u \in Threads : ret[t] = ret[u]

DenseIds(cs) == \A i \in 1..Len(cs) : cs[i].id = "sam_" \o ToString(i - 1)

\* What a run over the image gives from its model outputs alone.
TwinOutputs == [k \in 0..(NPrompts - 1) |-> CHOOSE o \in Outputs(k) : TRUE]

\* C24: every discovery run over the image returns the list its per-prompt
\* model outputs determine, so any two runs return identical lists.
C24_Determinism ==
    [][\A t \in Threads :
         (pc[t] # "idle" /\ pc'[t] = "idle") =>
            ret'[t] = DiscoverFrom(<<>>, BatchSizeOf(device), TwinOutputs, {}, 0)]_vars

\* after keeps what discovery owns of before.
Kept(before, after) ==
    /\ Len(after) = Len(before)
    /\ \A i \in 1..Len(before) :
        /\ after[i].id = before[i].id
        /\ after[i].position = before[i].position
        /\ after[i].scale = before[i].scale
        /\ after[i].confidence = before[i].confidence

\* C25: for every list a discovery run returns and every describe response,
\* enrich_sam_components returns a list of the same length, order and ids
\* whose positions, scales and confidences are those of the input.
C25_EnrichmentFrame ==
    \A t \in Threads : \A d \in DescribeOutcomes :
        Kept(ret[t], EnrichSamComponents(ret[t], d))

\* A returned list of at least five components that enrichment changes: the
\* first component becomes a rotated wheel, the second a torus.
C25_Witness ==
    /\ Len(ret[1]) >= 5
    /\ EnrichSamComponents(ret[1], "maps_all")[1].rotation = "z90"
    /\ EnrichSamComponents(ret[1], "maps_all")[2].geometry = "torus"
    /\ EnrichSamComponents(ret[1], "malformed_entry")[1].geometry = "cylinder"
    /\ ret[1][1].scale[1] # ret[1][1].scale[2]

\* The point of cell (i, j) is the pixel that holds the cell center
\* ((i + 0.5) * width / N, (j + 0.5) * height / N).
AtCellCenter(g, k) ==
    LET i == k \div n_points
        j == k % n_points
        x == g.points[k][1]
        y == g.points[k][2]
    IN /\ 2 * n_points * x <= (2 * i + 1) * g.width
       /\ (2 * i + 1) * g.width < 2 * n_points * (x + 1)
       /\ 2 * n_points * y <= (2 * j + 1) * g.height
       /\ (2 * j + 1) * g.height < 2 * n_points * (y + 1)

InsideImage(g, k) ==
    /\ g.points[k][1] \in 0..(g.width - 1)
    /\ g.points[k][2] \in 0..(g.height - 1)

\* C28: for every image size the grid a run builds has 36 points, the point
\* of cell (i, j) at the cell center and inside the image, the points
\* pairwise distinct, and the same size always gives the same points.
C28_GridSampler ==
    \A t \in Threads :
        grid[t] # NoGrid =>
            /\ DOMAIN grid[t].points = 0..(n_points * n_points - 1)
            /\ \A k \in DOMAIN grid[t].points :
                  AtCellCenter(grid[t], k) /\ InsideImage(grid[t], k)
            /\ \A k \in DOMAIN grid[t].points : \A m \in DOMAIN grid[t].points :
                  k # m => grid[t].points[k] # grid[t].points[m]
            /\ grid[t].points = GridPoints(grid[t].width, grid[t].height)

\* The component was made from, or last overwritten with, the bbox of o.
SameBox(c, o) ==
    /\ c.position[1] = PosX(XCenter2(o))
    /\ c.position[2] = PosY(YCenter2(o))
    /\ c.scale[1] = BoxW(o)
    /\ c.scale[2] = BoxH(o)

OfBox(components, o) == {i \in 1..Len(components) : SameBox(components[i], o)}

\* C29: a passing candidate whose bbox is that of an accepted component is
\* merged into it: after the candidate exactly one component has that bbox,
\* and its confidence is the highest the bbox has been given.
C29_SameBoxCollapses ==
    \A t \in Threads : \A o \in Candidates(t) :
        (Passes(o) /\ OfBox(comps[t], o) # {}) =>
            LET after == ProcessPrompt(comps[t], o)
            IN /\ Cardinality(OfBox(after, o)) = 1
               /\ \A i \in OfBox(after, o) :
                     /\ after[i].confidence >= o.score
                     /\ \A k \in OfBox(comps[t], o) :
                           after[i].confidence >= comps[t][k].confidence

\* The squared distance between the centers of c and o, in the units of
\* WithinRadius.
Dist2(c, o) ==
    LET dx == (XCenter2(o) - CenterOf(c)[1]) * ImgH
        dy == (YCenter2(o) - CenterOf(c)[2]) * ImgW
    IN dx * dx + dy * dy

\* The accepted components at the minimum distance from o.
Nearest(components, o) ==
    {i \in 1..Len(components) :
        \A k \in 1..Len(components) : Dist2(components[i], o) <= Dist2(components[k], o)}

\* C30: a passing candidate is merged (the list does not grow) exactly when
\* its minimum distance to the accepted components is below 0.1; only a
\* component at that minimum distance is changed, and the candidate is
\* compared with it: the overwrite happens when the candidate is the more
\* confident one and not otherwise (among components at the same minimum
\* distance either may be the one compared).
C30_MergeTargetNearest ==
    \A t \in Threads : \A o \in Candidates(t) :
        Passes(o) =>
            LET before == comps[t]
                after == ProcessPrompt(before, o)
            IN /\ (Len(after) = Len(before)) <=>
                     (\E i \in 1..Len(before) :
                         25 * Dist2(before[i], o) < (ImgW * ImgH) * (ImgW * ImgH))
               /\ \A i \in 1..Len(before) :
                     i \notin Nearest(before, o) => after[i] = before[i]
               /\ (/\ Len(after) = Len(before)
                   /\ \A i \in Nearest(before, o) : o.score > before[i].confidence)
                     => after # before
               /\ (/\ Len(after) = Len(before)
                   /\ \A i \in Nearest(before, o) : o.score <= before[i].confidence)
                     => after = before

\* C31: when a passing candidate is a duplicate of strictly higher confidence
\* than the component the loop matches it with, that component takes the
\* candidate's x, y, scale and confidence and keeps its z, id and name; every
\* other component and the length of the list are unchanged.
C31_OverwriteFrame ==
    \A t \in Threads : \A o \in Candidates(t) :
        LET before == comps[t]
            d == DuplicateOf(before, o)
            after == ProcessPrompt(before, o)
        IN (Passes(o) /\ d # 0 /\ o.score > before[d].confidence) =>
              /\ Len(after) = Len(before)
              /\ after[d].position[1] = PosX(XCenter2(o))
              /\ after[d].position[2] = PosY(YCenter2(o))
              /\ after[d].scale = <<BoxW(o), BoxH(o), FixedDepth>>
              /\ after[d].confidence = o.score
              /\ after[d].position[3] = before[d].position[3]
              /\ after[d].id = before[d].id
              /\ after[d].name = before[d].name
              /\ \A i \in 1..Len(before) : i # d => after[i] = before[i]

\* The run is at a candidate that is better than the component it matches,
\* whose bbox has another area than that component's, with other components
\* accepted.
C31_Witness ==
    /\ pc[1] = "prompt"
    /\ Len(comps[1]) >= 3
    /\ \E o \in Candidates(1) :
          /\ Passes(o)
          /\ DuplicateOf(comps[1], o) = 1
          /\ o.score > comps[1][1].confidence
          /\ BoxW(o) * BoxH(o) # comps[1][1].position[3]

\* C32: when a passing candidate is a duplicate whose confidence is lower
\* than or equal to that of the component the loop matches it with, the
\* list after the candidate is the list before it, field for field.
C32_DiscardFrame ==
    \A t \in Threads : \A o \in Candidates(t) :
        LET before == comps[t]
            d == DuplicateOf(before, o)
        IN (Passes(o) /\ d # 0 /\ o.score <= before[d].confidence) =>
              ProcessPrompt(before, o) = before

\* The run is at a duplicate candidate of the same confidence as its match
\* and of another bbox.
C32_Witness ==
    /\ pc[1] = "prompt"
    /\ Len(comps[1]) >= 2
    /\ \E o \in Candidates(1) :
          /\ Passes(o)
          /\ DuplicateOf(comps[1], o) # 0
          /\ o.score = comps[1][DuplicateOf(comps[1], o)].confidence
          /\ ~SameBox(comps[1][DuplicateOf(comps[1], o)], o)

\* The responses whose mapping is applied to the end.
AppliedDescribes == DescribeOutcomes \ {"malformed_entry"}

\* C33: for every list a discovery run returns, a component whose id the
\* returned mapping does not name is returned with every attribute unchanged,
\* and a component whose id it names is given the attributes of its own
\* entry, whatever the other components' entries are.
C33_BestEffortPerComponent ==
    \A t \in Threads : \A d \in DescribeOutcomes :
        LET enriched == EnrichSamComponents(ret[t], d)
        IN \A i \in 1..Len(ret[t]) :
              /\ ret[t][i].id \notin MappedIds(d, ret[t]) => enriched[i] = ret[t][i]
              /\ (d \in AppliedDescribes /\ ret[t][i].id \in MappedIds(d, ret[t])) =>
                    enriched[i] = Enriched(ret[t][i], AttrsOf(ret[t][i].id))

\* A returned list of which the mapping names the first component only: it
\* is updated and the others are not.
C33_Witness ==
    /\ Len(ret[1]) >= 5
    /\ EnrichSamComponents(ret[1], "maps_first")[1] # ret[1][1]
    /\ EnrichSamComponents(ret[1], "maps_first")[2] = ret[1][2]
    /\ ret[1][2].geometry = "None"

\* x and y within [-1, 1], w and h at least 0.05 and not both above 0.9,
\* confidence at least 0.70.
WithinBounds(c) ==
    /\ c.position[1] \in (0 - ImgW)..ImgW
    /\ c.position[2] \in (0 - ImgH)..ImgH
    /\ 20 * c.scale[1] >= ImgW
    /\ 20 * c.scale[2] >= ImgH
    /\ ~(10 * c.scale[1] > 9 * ImgW /\ 10 * c.scale[2] > 9 * ImgH)
    /\ c.confidence >= 70

\* C34: a candidate that is appended becomes a component with
\* x = (x_center - 0.5) * 2, y = (0.5 - y_center) * 2, z = 0.5 * w * h and
\* scale [w, h, 0.02]; and at every point of a run every accepted component
\* is within the bounds.
C34_EmittedGeometry ==
    /\ \A t \in Threads : \A i \in 1..Len(comps[t]) : WithinBounds(comps[t][i])
    /\ \A t \in Threads : \A i \in 1..Len(ret[t]) : WithinBounds(ret[t][i])
    /\ \A t \in Threads : \A o \in Candidates(t) :
          LET after == ProcessPrompt(comps[t], o)
              new == after[Len(after)]
          IN Len(after) > Len(comps[t]) =>
                /\ new.position[1] = (o.xmin + o.xmax) - ImgW
                /\ new.position[2] = ImgH - (o.ymin + o.ymax)
                /\ new.position[3] = (o.xmax - o.xmin) * (o.ymax - o.ymin)
                /\ new.scale = <<o.xmax - o.xmin, o.ymax - o.ymin, 2>>
                /\ new.confidence = o.score

\* A component of width 0.05, one wider than 0.9 and an overwritten one have
\* been accepted, and the run is at a candidate it will append.
C34_Witness ==
    /\ pc[1] = "prompt"
    /\ \E i \in 1..Len(comps[1]) : 20 * comps[1][i].scale[1] = ImgW
    /\ \E i \in 1..Len(comps[1]) : 10 * comps[1][i].scale[1] > 9 * ImgW
    /\ comps[1][1].confidence = 90
    /\ \E o \in Candidates(1) : Len(ProcessPrompt(comps[1], o)) > Len(comps[1])

C38_BatchFailureIsolation ==
    [][\A t \in Threads :
        /\ (pc[t] = "batch" /\ pc'[t] = "batch") =>
                /\ comps'[t] = comps[t]
                /\ bstart'[t] = bstart[t] + bsize[t]
        /\ (pc[t] = "prompt" /\ pc'[t] = "batch") =>
                /\ bstart'[t] = bstart[t] + bsize[t]
                /\ bj[t] + 1 < BatchLen(t) => comps'[t] = comps[t]
                /\ Len(comps'[t]) >= Len(comps[t])
        /\ (pc[t] \in {"batch", "prompt"} /\ pc'[t] \notin {"batch", "prompt"}) =>
                /\ pc[t] = "batch"
                /\ bstart[t] >= NPrompts
                /\ ret'[t] = comps[t]
                /\ model' = NoModel]_vars

\* The first batch failed after two components were accepted; both are kept
\* and the second batch has added a third.
C38_Witness ==
    /\ "batch_failed" \in events[1]
    /\ pc[1] = "prompt"
    /\ bstart[1] = 2 * bsize[1]
    /\ Len(comps[1]) = 3
    /\ comps[1][1].scale[1] = BoxW(BoxA)
    /\ comps[1][2].scale[1] = BoxW(BoxD)
    /\ comps[1][3].scale[1] = BoxW(BoxG)

\* C37: during a run a step on a prompt lowers no accepted component's
\* confidence, removes no component and adds at most one; the number of
\* accepted components is at most the number of prompts processed so far,
\* hence at most 36.
C37_MonotoneRun ==
    /\ [](\A t \in Threads :
            /\ Len(comps[t]) <= 36
            /\ pc[t] \in {"batch", "prompt"} => Len(comps[t]) <= bstart[t] + bj[t])
    /\ [][\A t \in Threads :
            (pc[t] = "prompt") =>
                /\ Len(comps'[t]) \in {Len(comps[t]), Len(comps[t]) + 1}
                /\ \A i \in 1..Len(comps[t]) :
                      comps'[t][i].confidence >= comps[t][i].confidence]_vars

\* Late in a run: six components accepted, the first one raised to 0.90 by
\* an overwrite, a duplicate of lower confidence met.
C37_Witness ==
    /\ pc[1] = "prompt"
    /\ bstart[1] + bj[1] > 13
    /\ Len(comps[1]) >= 6
    /\ comps[1][1].confidence = 90
    /\ comps[1][1].scale[1] = BoxW(BoxC)

\* C20: at every point of a discovery run the k-th accepted component
\* (counting from 0) has id sam_k, and a step of the run removes no
\* component and changes no id, whether it appends, overwrites or discards.
C20_IdsUniqueAndDense ==
    /\ [](\A t \in Threads : DenseIds(comps[t]) /\ DenseIds(ret[t]))
    /\ [][\A t \in Threads :
            (pc[t] = "prompt") =>
                /\ Len(comps'[t]) >= Len(comps[t])
                /\ \A i \in 1..Len(comps[t]) : comps'[t][i].id = comps[t][i].id]_vars

\* The first component has been overwritten by a better candidate and two
\* more components were accepted.
C20_Witness ==
    /\ pc[1] = "prompt"
    /\ Len(comps[1]) >= 3
    /\ comps[1][1].confidence = 90
    /\ comps[1][1].position[1] = PosX(XCenter2(BoxC))

\* C15: when a step of the load fails (the weights or the preprocessor), the
\* load leaves no model resident and the run goes on to no inference: it is
\* in its batches only with both the model and the preprocessor loaded.
C15_FailedLoadLeavesNothing ==
    /\ (pc[1] = "loaded" /\ processor = NoModel) => model = NoModel
    /\ pc[1] \in InRun => (model # NoModel /\ processor # NoModel)

----------------------------------------------------------------------------
(* Claims on concurrent discovery runs *)

\* Model instances built and not yet freed: the one self.model holds and
\* those from_pretrained has built for a worker that has not assigned it yet.
ResidentModels == Cardinality(inflight) + (IF model # NoModel THEN 1 ELSE 0)

\* C5: under every interleaving of concurrent discovery runs at most one
\* model instance is loaded and not yet freed.
C5_AtMostOneResident == ResidentModels <= 1

\* C6: while a run is between its acquire and its release with the model and
\* the preprocessor resident, no step of another run makes either absent.
C6_ExclusiveUse ==
    [][\A t \in Threads :
         (pc[t] \in InRun /\ pc'[t] \in InRun /\ model # NoModel /\ processor # NoModel)
            => (model' # NoModel /\ processor' # NoModel)]_vars

\* C17: acquiring while a model is resident performs no second load and
\* leaves the resident model and preprocessor as they are.
C17_AcquireIdempotent ==
    [][\A t \in Threads :
         (pc[t] = "acquire" /\ pc'[t] # "acquire" /\ model # NoModel) =>
            /\ pc'[t] = "open"
            /\ model' = model
            /\ processor' = processor
            /\ inflight' = inflight
            /\ device' = device]_vars

C17_Witness ==
    /\ pc[2] = "open"
    /\ pc[1] \in InRun
    /\ model = 1
    /\ processor = 1
    /\ inflight = {}

Released == UnloadLocalModel(model, processor)

\* C18: unload_local_model called with no model loaded changes nothing, and
\* unloading twice in a row leaves what unloading once leaves.
C18_ReleaseSafe ==
    /\ model = NoModel => Released = <<model, processor>>
    /\ UnloadLocalModel(Released[1], Released[2]) = Released

\* A run arrives at its unload (line 207) after another run has unloaded.
C18_Witness ==
    /\ pc[2] = "batch"
    /\ bstart[2] >= NPrompts
    /\ model = NoModel
    /\ pc[1] = "idle"

----------------------------------------------------------------------------
(* Claims on requests *)

Answered(t) == pc[t] = "idle" /\ req[t].image_id \in Stored

TierFailures ==
    {"load_failed", "run_failed", "batch_failed", "discovery_raised", "too_few",
     "generate_failed"}

\* C1: for every request whose image exists, whatever discovery and the
\* generative call give, the response carries a non-empty components list.
C1_CascadeGuarantee ==
    \A t \in Threads :
        Answered(t) =>
            /\ resp[t].status = 200
            /\ "components" \in resp[t].body.keys
            /\ Len(resp[t].body.components) > 0

\* C2: a request in which a tier failed (the model could not be loaded,
\* discovery raised or found too few components, the generative call failed)
\* still ends in a successful response that carries a component set.
C2_FailuresAbsorbed ==
    \A t \in Threads :
        (Answered(t) /\ events[t] \cap TierFailures # {}) =>
            /\ resp[t].status = 200
            /\ "components" \in resp[t].body.keys

MarkedCached(body) == [body EXCEPT !.cached = TRUE]

\* C7: once a fresh result has been returned for an image, a request for it
\* with force_regenerate = false returns that result with cached = true:
\* same components, method and processing time.
C7_CacheIdempotence ==
    \A t \in Threads :
        (pc[t] = "idle" /\ req[t].seen /\ ~req[t].force) =>
            /\ resp[t].status = 200
            /\ resp[t].body = MarkedCached(fresh[req[t].image_id])

C7_Witness ==
    \E t \in Threads :
        /\ pc[t] = "idle" /\ req[t].seen /\ ~req[t].force
        /\ resp[t].body.cached
        /\ resp[t].body.method = "local_sam_base_plus_gemini"
        /\ resp[t].body.processing_time = 2

\* C8: a request that finds a cached result and does not force regeneration
\* is answered at once: no model load, no discovery, no describe or generate
\* call, no cache write, and the cache entry is as the request found it.
C8_HitShortCircuits ==
    \A t \in Threads :
        (req[t].entry.state = "complete" /\ ~req[t].force) =>
            /\ pc[t] = "idle"
            /\ events[t] = {}
            /\ resp[t].status = 200
            /\ resp[t].body.cached
            /\ cache[req[t].image_id] = req[t].entry
            /\ model = NoModel /\ processor = NoModel /\ inflight = {}

C8_Witness ==
    \E t \in Threads :
        /\ req[t].entry.state = "complete" /\ ~req[t].force
        /\ resp[t].status = 200 /\ resp[t].body.cached
        /\ events[t] = {}

\* C9: with force_regenerate = true a request that finds a cached result runs
\* the pipeline again, answers with cached = false and replaces the cache
\* entry by the fresh result, which a following unforced request returns.
C9_ForceBypassesCache ==
    \A t \in Threads :
        (pc[t] = "idle" /\ req[t].force /\ req[t].entry.state = "complete") =>
            /\ resp[t].status = 200
            /\ ~resp[t].body.cached
            /\ events[t] \cap {"discovery", "discovery_raised"} # {}
            /\ "cache_write" \in events[t]
            /\ cache[req[t].image_id] = CompleteFile(JsonDump(resp[t].body))
            /\ fresh[req[t].image_id] = resp[t].body
            /\ CachedResult(cache[req[t].image_id].doc) = MarkedCached(resp[t].body)

C9_Witness ==
    \E t \in Threads :
        /\ pc[t] = "idle" /\ req[t].force /\ req[t].entry.state = "complete"
        /\ resp[t].status = 200 /\ ~resp[t].body.cached
        /\ cache[req[t].image_id] # req[t].entry

Writing == {"cache_open", "cache_dump"}

AfterTier1 == {"generate", "cache_open", "cache_dump"}

\* C26: when enrichment fails (the call or the parse raises, or an entry met
\* part-way through the mapping is malformed), the list it returns is the
\* discovered list with every attribute as discovery left it, and the request
\* goes on to return the segmented tier.
C26_DescribeErrorKeepsRaw ==
    [][\A t \in Threads :
         (pc[t] = "tier1" /\ pc'[t] # "tier1" /\ EnoughComponents(ret[t])) =>
            /\ pc'[t] = "cache_open"
            /\ result'[t].method = "local_sam_base_plus_gemini"
            /\ \A d \in FailedDescribes :
                  EnrichSamComponents(ret[t], d) = ret[t]]_vars

\* The images a request cannot read: no file under either name, or a file
\* Image.open cannot decode.
Unreadable == {"bad", "missing"}

\* C27: a request for a missing image, and one for a malformed image, ends in
\* an error response that carries no component set, and no cache entry is
\* ever written for a malformed image.
C27_UnreadableIsFatal ==
    /\ \A t \in Threads :
          (pc[t] = "idle" /\ req[t].image_id \in Unreadable) =>
              /\ resp[t].status >= 400
              /\ "components" \notin resp[t].body.keys
    /\ cache["bad"] = NoFile

\* C12: a request whose discovery found nothing above the quality floor, or
\* fewer than 5 components, makes no describe call, and its response comes
\* from the generative or the placeholder tier under another method than the
\* segmented one.
C12_TooFewFallsThrough ==
    \A t \in Threads :
        /\ (pc[t] \in AfterTier1 /\ Len(ret[t]) < 5) =>
              /\ events[t] \cap {"describe", "segmented"} = {}
              /\ pc[t] \in Writing =>
                    /\ "generate" \in events[t]
                    /\ result[t].method = "gemini_procedural"
        /\ (Answered(t) /\ "too_few" \in events[t]) =>
              /\ events[t] \cap {"describe", "segmented"} = {}
              /\ "generate" \in events[t]
              /\ resp[t].status = 200
              /\ resp[t].body.method # "local_sam_base_plus_gemini"

C12_Witness ==
    \E t \in Threads :
        /\ pool = "blank"
        /\ Answered(t) /\ "too_few" \in events[t]
        /\ events[t] \cap {"load_failed", "run_failed", "batch_failed"} = {}
        /\ resp[t].body.method = "gemini_procedural"

\* The method a result of the generative tier is labelled with.
GenerativeMethod(product_info) ==
    ProceduralResult(GenerateComplexComponents("components", product_info),
                     product_info, 1).method

\* C13: the method of a fresh response names the tier that made it: the
\* segmented, the generative and the placeholder tier have three distinct
\* methods, so a placeholder result never carries the generative method.
C13_MethodNamesTier ==
    \A t \in Threads :
        (Answered(t) /\ resp[t].status = 200 /\ ~resp[t].body.cached) =>
            /\ "segmented" \in events[t] =>
                  resp[t].body.method # GenerativeMethod(req[t].product_info)
            /\ "generate_failed" \in events[t] =>
                  /\ resp[t].body.method # GenerativeMethod(req[t].product_info)
                  /\ resp[t].body.method # "local_sam_base_plus_gemini"

DistinctIds(cs) ==
    \A i \in 1..Len(cs) : \A k \in 1..Len(cs) : i # k => cs[i].id # cs[k].id

\* C14: when the generative call returns an error the response holds the
\* placeholder catalog of the requested category, and the default catalog
\* for a category without one and for an absent product_info; the catalog
\* is non-empty and its ids are pairwise distinct.
C14_PlaceholderCatalog ==
    \A t \in Threads :
        (Answered(t) /\ "generate_failed" \in events[t]) =>
            /\ resp[t].status = 200
            /\ resp[t].body.model_type = "placeholder"
            /\ resp[t].body.components = SmartphoneParts
            /\ Len(resp[t].body.components) > 0
            /\ DistinctIds(resp[t].body.components)

C14_Witness ==
    \E t \in Threads :
        /\ Answered(t) /\ "generate_failed" \in events[t]
        /\ req[t].product_info = "None"
        /\ Len(resp[t].body.components) = 5

\* C16: the status endpoint reports segmentation as unavailable whenever the
\* model's weights are absent, and a request on such a host is still served
\* by the generative or the placeholder tier, never by an error.
C16_StatusReflectsLoadability ==
    \A t \in Threads :
        /\ (pc[t] = "idle" /\ "sam3d_available" \in resp[t].body.keys /\ ~weights) =>
              ~resp[t].body.sam3d_available
        /\ (Answered(t) /\ ~weights /\ ~resp[t].body.cached) =>
              /\ resp[t].status = 200
              /\ resp[t].body.method = "gemini_procedural"

CacheFaults == {"cache_read_failed", "cache_write_failed"}

\* C19: a request during which reading the cache entry or writing the fresh
\* result failed is still answered with the fresh result of the tier that
\* made it, uncached; a discovery result that qualified is answered as
\* segmented.
C19_CacheFaultNonFatal ==
    \A t \in Threads :
        (Answered(t) /\ events[t] \cap CacheFaults # {}) =>
            /\ resp[t].status = 200
            /\ ~resp[t].body.cached
            /\ "components" \in resp[t].body.keys
            /\ "segmented" \in events[t] =>
                  resp[t].body.method = "local_sam_base_plus_gemini"

\* C35: with requests for one image served at once, a request that reads the
\* cache entry gets a complete entry (or, on a miss, computes its result):
\* it is never answered with a read failure; and when no request is between
\* opening and writing the file, the file is absent or complete.
C35_CacheConcurrentSafe ==
    /\ \A t \in Threads : Answered(t) => resp[t].status = 200
    /\ (\A t \in Threads : pc[t] # "cache_dump") => cache["img"] # PartialFile

\* C10: a cache hit never returns a result that was computed for the same
\* image under another product_info.
C10_CacheKeyCoversProduct ==
    \A t \in Threads :
        (Answered(t) /\ resp[t].status = 200 /\ resp[t].body.cached) =>
            resp[t].origin = req[t].product_info

====
